---- MODULE Spec2Model ----
(***************************************************************************)
(* Model of egui-wgpu-x11: an override-redirect, input-transparent X11     *)
(* overlay window (src/src/x11.rs) driven by a wgpu presentation loop      *)
(* (src/src/main.rs).                                                      *)
(*                                                                         *)
(* The X server, the window manager and the GPU driver are the             *)
(* environment: the replies they give and the events they deliver are      *)
(* nondeterministic inputs of the actions.                                 *)
(***************************************************************************)
EXTENDS Integers, Sequences, FiniteSets, TLC

VARIABLES
    pc,        \* position of main: start, connected, created, mapped, render, poll, done, exited, panicked
    screen,    \* the Screen picked from conn.setup().roots
    xlog,      \* X11 requests issued during startup, in order
    server,    \* X server side: the overlay window, its shapes, live regions
    children,  \* stacking order of the root's children, bottom first, topmost last
    window,    \* MyWindow handed to wgpu
    st,        \* State: size, config, the surface.configure calls made, frames presented
    i,         \* loop counter of main
    pending,   \* events waiting on the connection
    last,      \* what the last program step did (operation, inputs, outcome)
    waiting,   \* loop iterations completed since the overlay was last topmost or checked
    since      \* loop iterations completed since raise_if_not_top was last invoked

vars == <<pc, screen, xlog, server, children, window, st, i, pending, last, waiting, since>>

----------------------------------------------------------------------------
(* Bounds of the model *)

MaxOthers == 1        \* windows of other clients under the root
MaxPending == 1       \* events queued on the connection
MaxCalls == 1         \* reconfiguring resize calls exercised on a State object
MaxDim == 1           \* largest low half of a resize dimension

(* Program constants *)

U16 == 65536                 \* width: u16, height: u16
Margin == 200                \* screen.width_in_pixels - 200
WinPos == 100                \* x, y of the overlay
STACK_CHECK_DELAY == 30
AlphaDepth == 32
NET_WM_STATE_ADD == 1
RegionNone == 0              \* region: 0 in the BOUNDING request

(* Resource identifiers: fresh ids handed out by the connection, all non-zero *)

OtherWindows == 1..MaxOthers
OverlayId == MaxOthers + 1
RootId == MaxOthers + 2
RegionId == MaxOthers + 3
ColormapId == MaxOthers + 4
RootVisual == MaxOthers + 5
ArgbVisual == MaxOthers + 6

----------------------------------------------------------------------------
(* u32 arithmetic.  A u32 is kept as <<high 16 bits, low 16 bits>>.        *)

AsU32(x) == <<0, x>>

IsZeroU32(v) == v[1] = 0 /\ v[2] = 0

\* v - k overflows (v < k); k < 2^16
UnderflowsU32(v, k) == v[1] = 0 /\ v[2] < k

\* wrapping subtraction v - k mod 2^32; k < 2^16
WrappingSubU32(v, k) ==
    IF v[2] >= k THEN <<v[1], v[2] - k>>
    ELSE <<(v[1] + U16 - 1) % U16, v[2] + U16 - k>>

UnderflowsU16(x, k) == x < k

WrappingSubU16(x, k) == (x + U16 - k) % U16

----------------------------------------------------------------------------
(* Generic helpers *)

Range(s) == {s[k] : k \in 1..Len(s)}

\* s without the entries equal to x
Without(s, x) == SelectSeq(s, LAMBDA e : e # x)

\* the duplicate-free sequences over the set S
Orderings(S) ==
    {s \in UNION {[1..n -> S] : n \in 0..Cardinality(S)} :
        \A a, b \in DOMAIN s : a # b => s[a] # s[b]}

----------------------------------------------------------------------------
(* src/src/x11.rs: the requests each function hands to the connection.     *)
(* Each function takes `fail`, the name of the one call whose `?` returns  *)
(* an error ("none" when every call succeeds), and yields                  *)
(*   status: "ok", "err" (an Err propagated by ?) or "panic" (an unwrap),  *)
(*   reqs:   the requests issued, in order, the failing one last but for   *)
(*           the requests issued by Drop on the way out,                   *)
(*   failed: the index in reqs of the call that failed, 0 when none.       *)

CreateRegionReq(rid) == [op |-> "CreateRegion", region |-> rid, rects |-> {}]

DestroyRegionReq(rid) == [op |-> "DestroyRegion", region |-> rid]

SetWindowShapeRegionReq(win_id, kind, rid) ==
    [op |-> "SetWindowShapeRegion", dest |-> win_id, dest_kind |-> kind,
     x_offset |-> 0, y_offset |-> 0, region |-> rid]

\* variant: the empty region is applied to the bounding shape as well
InputPassthroughBounding(win_id, fail) ==
    LET create == CreateRegionReq(RegionId)
        bounding == SetWindowShapeRegionReq(win_id, "BOUNDING", RegionId)
        input == SetWindowShapeRegionReq(win_id, "INPUT", RegionId)
        destroy == DestroyRegionReq(RegionId)
    IN  IF fail \in {"create_region", "set_bounding", "set_input", "destroy_region"}
        THEN [status |-> "err", reqs |-> <<create>>, failed |-> 1]
        ELSE [status |-> "ok", reqs |-> <<create, bounding, input, destroy, destroy>>,
              failed |-> 0]

InputPassthrough(win_id, fail) ==
    LET create == CreateRegionReq(RegionId)
        bounding == SetWindowShapeRegionReq(win_id, "BOUNDING", RegionNone)
        input == SetWindowShapeRegionReq(win_id, "INPUT", RegionId)
        destroy == DestroyRegionReq(RegionId)
        drop == DestroyRegionReq(RegionId)      \* RegionWrapper going out of scope
    IN  IF fail = "create_region"
        THEN [status |-> "err", reqs |-> <<create>>, failed |-> 1]
        ELSE IF fail = "set_bounding"
        THEN [status |-> "err", reqs |-> <<create, bounding, drop>>, failed |-> 2]
        ELSE IF fail = "set_input"
        THEN [status |-> "err", reqs |-> <<create, bounding, input, drop>>, failed |-> 3]
        ELSE IF fail = "destroy_region"
        THEN [status |-> "err", reqs |-> <<create, bounding, input, destroy, drop>>,
              failed |-> 4]
        ELSE [status |-> "ok", reqs |-> <<create, bounding, input, destroy, drop>>,
              failed |-> 0]

InternAtomReq(name) == [op |-> "InternAtom", only_if_exists |-> FALSE, name |-> name]

AlwaysOnTopEvent(root_win_id, win_id) ==
    [op |-> "SendEvent", propagate |-> FALSE, destination |-> root_win_id,
     event_mask |-> {"SUBSTRUCTURE_NOTIFY", "SUBSTRUCTURE_REDIRECT"},
     format |-> 32, window |-> win_id, type |-> "_NET_WM_STATE",
     data |-> [action |-> NET_WM_STATE_ADD, first |-> "_NET_WM_STATE_ABOVE"]]

AlwaysOnTop(root_win_id, win_id, fail) ==
    LET a1 == InternAtomReq("_NET_WM_STATE")
        a2 == InternAtomReq("_NET_WM_STATE_ABOVE")
        ev == AlwaysOnTopEvent(root_win_id, win_id)
    IN  IF fail = "intern_atom_state"
        THEN [status |-> "err", reqs |-> <<a1>>, failed |-> 1]
        ELSE IF fail = "intern_atom_above"
        THEN [status |-> "err", reqs |-> <<a1, a2>>, failed |-> 2]
        ELSE IF fail = "send_event"
        THEN [status |-> "err", reqs |-> <<a1, a2, ev>>, failed |-> 3]
        ELSE [status |-> "ok", reqs |-> <<a1, a2, ev>>, failed |-> 0]

\* tree.last() != Some(&win_id)
NotLast(tree, win_id) == tree = <<>> \/ tree[Len(tree)] # win_id

ConfigureWindowReq(win_id, values) ==
    [op |-> "ConfigureWindow", window |-> win_id, values |-> values]

\* variant: the window is raised without looking at the tree
RaiseAlways(reply, win_id, sendOk) ==
    IF ~reply.ok
    THEN [status |-> "err", reqs |-> <<>>, failed |-> 0]
    ELSE [status |-> IF sendOk THEN "ok" ELSE "err",
          reqs |-> <<ConfigureWindowReq(win_id, [stack_mode |-> "ABOVE"])>>,
          failed |-> IF sendOk THEN 0 ELSE 1]

\* variant: an empty child list counts as nothing to do
RaiseNonEmptyOnly(reply, win_id, sendOk) ==
    IF ~reply.ok
    THEN [status |-> "err", reqs |-> <<>>, failed |-> 0]
    ELSE IF reply.children # <<>> /\ NotLast(reply.children, win_id)
    THEN [status |-> IF sendOk THEN "ok" ELSE "err",
          reqs |-> <<ConfigureWindowReq(win_id, [stack_mode |-> "ABOVE"])>>,
          failed |-> IF sendOk THEN 0 ELSE 1]
    ELSE [status |-> "ok", reqs |-> <<>>, failed |-> 0]

\* reply: the outcome of query_tree(root)?.reply()?; sendOk: whether
\* configure_window(..)? returns Ok
RaiseIfNotTop(reply, win_id, sendOk) ==
    IF ~reply.ok
    THEN [status |-> "err", reqs |-> <<>>, failed |-> 0]
    ELSE IF NotLast(reply.children, win_id)
    THEN LET values == [stack_mode |-> "ABOVE"]     \* ConfigureWindowAux::default().stack_mode(..)
             req == ConfigureWindowReq(win_id, values)
         IN  IF sendOk
             THEN [status |-> "ok", reqs |-> <<req>>, failed |-> 0]
             ELSE [status |-> "err", reqs |-> <<req>>, failed |-> 1]
    ELSE [status |-> "ok", reqs |-> <<>>, failed |-> 0]

CreateColormapReq(mid, root, visual) ==
    [op |-> "CreateColormap", alloc |-> "NONE", mid |-> mid, window |-> root,
     visual |-> visual]

FreeColormapReq(mid) == [op |-> "FreeColormap", cmap |-> mid]

CreateWindowReq(wid, root, x, y, width, height, visual, cmap) ==
    [op |-> "CreateWindow", depth |-> AlphaDepth, wid |-> wid, parent |-> root,
     x |-> x, y |-> y, width |-> width, height |-> height, border_width |-> 0,
     class |-> "INPUT_OUTPUT", visual |-> visual,
     background_pixel |-> 0, colormap |-> cmap, override_redirect |-> 1,
     border_pixel |-> 1]

\* variant: the first advertised depth is taken, whatever it is
FirstDepth(scr) == SubSeq(scr.allowed_depths, 1, 1)

\* depths.iter().find(|&d| d.depth == 32)
Depth32(scr) == SelectSeq(scr.allowed_depths, LAMBDA d : d.depth = AlphaDepth)

CreateFailPoints ==
    {"none", "create_colormap", "generate_id", "create_window", "create_region",
     "set_bounding", "set_input", "destroy_region", "intern_atom_state",
     "intern_atom_above", "send_event"}

CreateOverlayWindow(scr, x, y, width, height, fail) ==
    LET found == Depth32(scr)
        none == [status |-> "panic", reqs |-> <<>>, failed |-> 0, win_id |-> 0]
    IN  IF found = <<>> THEN none                         \* find(..).unwrap()
        ELSE IF found[1].visuals = <<>> THEN none         \* visuals.first().unwrap()
        ELSE
        LET visual_id == found[1].visuals[1]
            cmap == CreateColormapReq(ColormapId, scr.root, visual_id)
            win_id == OverlayId
            cwin == CreateWindowReq(win_id, scr.root, x, y, width, height,
                                    visual_id, ColormapId)
            ip == InputPassthrough(win_id, fail)
            aot == AlwaysOnTop(scr.root, win_id, fail)
        IN  IF fail = "create_colormap"
            THEN [status |-> "err", reqs |-> <<cmap>>, failed |-> 1, win_id |-> 0]
            ELSE IF fail = "generate_id"       \* cw is dropped: the colormap is freed
            THEN [status |-> "err", reqs |-> <<cmap, FreeColormapReq(ColormapId)>>,
                  failed |-> 0, win_id |-> 0]
            ELSE IF fail = "create_window"
            THEN [status |-> "err", reqs |-> <<cmap, cwin>>, failed |-> 2, win_id |-> 0]
            ELSE IF ip.status # "ok"
            THEN [status |-> "err", reqs |-> <<cmap, cwin>> \o ip.reqs,
                  failed |-> 2 + ip.failed, win_id |-> 0]
            ELSE IF aot.status # "ok"
            THEN [status |-> "err", reqs |-> <<cmap, cwin>> \o ip.reqs \o aot.reqs,
                  failed |-> 2 + Len(ip.reqs) + aot.failed, win_id |-> 0]
            ELSE [status |-> "ok", reqs |-> <<cmap, cwin>> \o ip.reqs \o aot.reqs,
                  failed |-> 0, win_id |-> win_id]

MapWindowReq(win_id) == [op |-> "MapWindow", window |-> win_id]

----------------------------------------------------------------------------
(* The X server's side of the requests above (X11 core protocol, SHAPE and *)
(* XFIXES semantics): what each request does to the overlay window.        *)

NoWindow ==
    [exists |-> FALSE, x |-> 0, y |-> 0, width |-> 0, height |-> 0, visual |-> 0,
     mapped |-> FALSE, bounding |-> {}, input |-> {}]

\* the default shape of a window: its whole rectangle
FullRect(width, height) == {[x |-> 0, y |-> 0, w |-> width, h |-> height]}

\* the points of a region, as far as the model needs them: none or some
IsEmptyRegion(rects) == \A r \in rects : r.w = 0 \/ r.h = 0

SameRegion(a, b) == (IsEmptyRegion(a) /\ IsEmptyRegion(b)) \/ a = b

LiveRegion(srv, rid) == \E g \in srv.regions : g.id = rid

RegionRects(srv, rid) == (CHOOSE g \in srv.regions : g.id = rid).rects

ServerApply(srv, r) ==
    IF r.op = "CreateWindow"
    THEN IF r.width = 0 \/ r.height = 0 \/ srv.win.exists
         THEN srv                                         \* BadValue / BadIDChoice
         ELSE [srv EXCEPT !.win =
                 [exists |-> TRUE, x |-> r.x, y |-> r.y, width |-> r.width,
                  height |-> r.height, visual |-> r.visual, mapped |-> FALSE,
                  bounding |-> FullRect(r.width, r.height),
                  input |-> FullRect(r.width, r.height)]]
    ELSE IF r.op = "CreateRegion"
    THEN [srv EXCEPT !.regions = @ \cup {[id |-> r.region, rects |-> r.rects]}]
    ELSE IF r.op = "DestroyRegion"
    THEN [srv EXCEPT !.regions = {g \in @ : g.id # r.region}]   \* BadRegion when not live
    ELSE IF r.op = "SetWindowShapeRegion"
    THEN IF ~srv.win.exists
         THEN srv                                         \* BadWindow
         ELSE LET shape ==
                     IF r.region = RegionNone
                     THEN FullRect(srv.win.width, srv.win.height)
                     ELSE RegionRects(srv, r.region)
              IN  IF r.region # RegionNone /\ ~LiveRegion(srv, r.region)
                  THEN srv                                \* BadRegion
                  ELSE IF r.dest_kind = "BOUNDING"
                  THEN [srv EXCEPT !.win.bounding = shape]
                  ELSE [srv EXCEPT !.win.input = shape]
    ELSE IF r.op = "MapWindow"
    THEN IF srv.win.exists THEN [srv EXCEPT !.win.mapped = TRUE] ELSE srv
    ELSE srv

\* the server after the requests reqs, the one at index failed never arriving
RECURSIVE ServerApplyAll(_, _, _, _)
ServerApplyAll(srv, reqs, failed, k) ==
    IF k > Len(reqs) THEN srv
    ELSE ServerApplyAll(IF k = failed THEN srv ELSE ServerApply(srv, reqs[k]),
                        reqs, failed, k + 1)

\* the stacking order after a ConfigureWindow with only stack_mode Above
Restack(order, win_id) ==
    IF win_id \in Range(order) THEN Append(Without(order, win_id), win_id) ELSE order

----------------------------------------------------------------------------
(* src/src/main.rs: State *)

NoMyWindow ==
    [window |-> 0, visual_id |-> 0, width |-> AsU32(0), height |-> AsU32(0)]

NoState ==
    [made |-> FALSE, size |-> <<AsU32(0), AsU32(0)>>,
     config |-> [width |-> AsU32(0), height |-> AsU32(0), present_mode |-> "Fifo"],
     calls |-> <<>>, outstanding |-> 0]

\* surface.configure(&device, &config): the call is recorded with its dimensions
Configure(s) ==
    [s EXCEPT !.calls = Append(@, [width |-> s.config.width, height |-> s.config.height])]

\* State::new, past the adapter and device unwraps
StateNew(win) ==
    LET size == <<win.width, win.height>>
    IN  Configure([made |-> TRUE, size |-> size,
                   config |-> [width |-> size[1], height |-> size[2],
                               present_mode |-> "Fifo"],
                   calls |-> <<>>, outstanding |-> 0])

\* variant: the configuration's height is left behind
ResizeWidthOnly(s, new_size) ==
    IF ~IsZeroU32(new_size[1]) /\ ~IsZeroU32(new_size[2])
    THEN Configure([s EXCEPT !.size = new_size, !.config.width = new_size[1]])
    ELSE s

\* variant: one non-zero dimension is enough
ResizeEitherNonZero(s, new_size) ==
    IF ~IsZeroU32(new_size[1]) \/ ~IsZeroU32(new_size[2])
    THEN Configure([s EXCEPT !.size = new_size,
                             !.config.width = new_size[1],
                             !.config.height = new_size[2]])
    ELSE s

\* State::resize
Resize(s, new_size) ==
    IF ~IsZeroU32(new_size[1]) /\ ~IsZeroU32(new_size[2])
    THEN Configure([s EXCEPT !.size = new_size,
                             !.config.width = new_size[1],
                             !.config.height = new_size[2]])
    ELSE s

\* what surface.get_current_texture() can answer
AcquireOutcomes == {"Ok", "Lost", "Outdated", "Timeout", "OutOfMemory"}

\* how the drawing between acquisition and present can go: add_textures,
\* execute (expect / unwrap)
DrawOutcomes == {"ok", "panic"}

\* variant: a failed acquisition is skipped over and Ok(()) returned
RenderSkipsFailedFrame(s, acq, draw) ==
    IF acq # "Ok"
    THEN [ret |-> "Ok", st |-> s, acquired |-> FALSE, presented |-> FALSE,
          dropped |-> FALSE]
    ELSE IF draw # "ok"
    THEN [ret |-> "panic", st |-> s, acquired |-> TRUE, presented |-> FALSE,
          dropped |-> TRUE]
    ELSE [ret |-> "Ok", st |-> s, acquired |-> TRUE, presented |-> TRUE,
          dropped |-> FALSE]

\* variant: the frame is neither presented nor dropped when render returns
RenderKeepsFrame(s, acq, draw) ==
    IF acq # "Ok"
    THEN [ret |-> "panic", st |-> s, acquired |-> FALSE, presented |-> FALSE,
          dropped |-> FALSE]
    ELSE IF draw # "ok"
    THEN [ret |-> "panic", st |-> s, acquired |-> TRUE, presented |-> FALSE,
          dropped |-> TRUE]
    ELSE [ret |-> "Ok", st |-> [s EXCEPT !.outstanding = @ + 1], acquired |-> TRUE,
          presented |-> FALSE, dropped |-> FALSE]

\* State::render: the acquisition is unwrapped, so every SurfaceError panics;
\* otherwise the frame is drawn, submitted and presented, and Ok(()) returned.
\* A panic while drawing unwinds and drops the frame.
Render(s, acq, draw) ==
    IF acq # "Ok"
    THEN [ret |-> "panic", st |-> s, acquired |-> FALSE, presented |-> FALSE,
          dropped |-> FALSE]
    ELSE LET got == [s EXCEPT !.outstanding = @ + 1]        \* get_current_texture()
             released == [got EXCEPT !.outstanding = @ - 1] \* present(), or the drop
         IN  IF draw # "ok"
             THEN [ret |-> "panic", st |-> released, acquired |-> TRUE,
                   presented |-> FALSE, dropped |-> TRUE]
             ELSE [ret |-> "Ok", st |-> released, acquired |-> TRUE,
                   presented |-> TRUE, dropped |-> FALSE]

\* the match on state.render() in main's loop
MatchRender(s, ret) ==
    IF ret = "Ok" THEN [st |-> s, brk |-> FALSE, arm |-> "Ok"]
    ELSE IF ret \in {"Lost", "Outdated"}
    THEN [st |-> Resize(s, s.size), brk |-> FALSE, arm |-> "reconfigure"]
    ELSE IF ret = "OutOfMemory" THEN [st |-> s, brk |-> TRUE, arm |-> "break"]
    ELSE [st |-> s, brk |-> FALSE, arm |-> "log"]

\* variant: the event is looked at but left in the queue
PollPeeks(n) == [event |-> n > 0, left |-> n]

\* conn.poll_for_event(): with n events queued, whether one is returned and
\* how many stay queued; it returns None at once when none is queued
PollForEvent(n) == [event |-> n > 0, left |-> IF n > 0 THEN n - 1 ELSE 0]

\* variant: the check does not look at the poll's result
CheckOnCounterOnly(event, c) == c = 0

\* if let Some(event) = .. { println } else if i == 0 { raise_if_not_top(..)? }
ShouldCheck(event, c) == ~event /\ c = 0

\* variant: the counter wraps one iteration early
NextCounterShort(c) == (c + 1) % (STACK_CHECK_DELAY - 1)

\* i = (i + 1) % STACK_CHECK_DELAY
NextCounter(c) == (c + 1) % STACK_CHECK_DELAY

\* MyWindow's raw_window_handle
RawWindowHandle(win) == [visual_id |-> win.visual_id, window |-> win.window]

----------------------------------------------------------------------------
(* The screens main can find itself on *)

ScreenWidths == {150, 200, 1920}

ScreenHeights == {200, 1080}

DepthLists ==
    {<<[depth |-> 24, visuals |-> <<RootVisual>>]>>,
     <<[depth |-> 24, visuals |-> <<RootVisual>>], [depth |-> 32, visuals |-> <<>>]>>,
     <<[depth |-> 24, visuals |-> <<RootVisual>>],
       [depth |-> 32, visuals |-> <<ArgbVisual>>]>>}

Screens ==
    {[root |-> RootId, width_in_pixels |-> w, height_in_pixels |-> h,
      root_visual |-> RootVisual, allowed_depths |-> d] :
        w \in ScreenWidths, h \in ScreenHeights, d \in DepthLists}
    \cup
    {[root |-> RootId, width_in_pixels |-> 1920, height_in_pixels |-> 1080,
      root_visual |-> ArgbVisual,
      allowed_depths |-> <<[depth |-> 32, visuals |-> <<ArgbVisual>>]>>]}

\* the stacking orders the window manager can produce: any order of any of the
\* other clients' windows, with the overlay among them once it exists
StackingOrders(srv) ==
    {o \in Orderings(OtherWindows \cup {OverlayId}) :
        (OverlayId \in Range(o)) <=> srv.win.exists}

\* the overlay is among the root's children and another window is above it
Buried(order) == OverlayId \in Range(order) /\ NotLast(order, OverlayId)

Cap == STACK_CHECK_DELAY + 1

----------------------------------------------------------------------------
(* main *)

Init ==
    /\ pc = "start"
    /\ screen \in Screens
    /\ xlog = <<>>
    /\ server = [win |-> NoWindow, regions |-> {}]
    /\ children \in Orderings(OtherWindows)
    /\ window = NoMyWindow
    /\ st = NoState
    /\ i = 1
    /\ pending = 0
    /\ last = [op |-> "none"]
    /\ waiting = 0
    /\ since = 0

\* XCBConnection::connect(None)? and xfixes_init(&conn)
Connect ==
    /\ pc = "start"
    /\ \E outcome \in {"ok", "connect_err", "xfixes_panic"} :
        /\ pc' = IF outcome = "ok" THEN "connected"
                 ELSE IF outcome = "connect_err" THEN "exited" ELSE "panicked"
        /\ last' = [op |-> "connect", outcome |-> outcome]
    /\ UNCHANGED <<screen, xlog, server, children, window, st, i, pending, waiting, since>>

\* create_overlay_window(&conn, screen, 100, 100, w - 200, h - 200)?
\* The u16 subtractions panic when overflow checks are compiled in and wrap
\* otherwise.
CreateOverlay ==
    /\ pc = "connected"
    /\ \E checks \in BOOLEAN, fail \in CreateFailPoints :
        LET w == screen.width_in_pixels
            h == screen.height_in_pixels
            under == UnderflowsU16(w, Margin) \/ UnderflowsU16(h, Margin)
            r == CreateOverlayWindow(screen, WinPos, WinPos,
                                     WrappingSubU16(w, Margin),
                                     WrappingSubU16(h, Margin), fail)
            srv == ServerApplyAll(server, r.reqs, r.failed, 1)
        IN  IF under /\ checks
            THEN /\ pc' = "panicked"
                 /\ last' = [op |-> "create_overlay_window", status |-> "overflow",
                             fail |-> "none"]
                 /\ UNCHANGED <<xlog, server, children, window>>
            ELSE /\ pc' = IF r.status = "ok" THEN "created"
                          ELSE IF r.status = "err" THEN "exited" ELSE "panicked"
                 /\ xlog' = xlog \o r.reqs
                 /\ server' = srv
                 /\ children' = IF srv.win.exists THEN Append(children, OverlayId)
                                ELSE children
                 /\ window' = [window EXCEPT !.window = r.win_id]
                 /\ last' = [op |-> "create_overlay_window", status |-> r.status,
                             fail |-> fail]
    /\ UNCHANGED <<screen, st, i, pending, waiting, since>>

\* conn.map_window(win_id)?; conn.flush()?
MapWindow ==
    /\ pc = "created"
    /\ \E ok \in BOOLEAN :
        LET req == MapWindowReq(window.window)
        IN  /\ xlog' = Append(xlog, req)
            /\ server' = IF ok THEN ServerApply(server, req) ELSE server
            /\ pc' = IF ok THEN "mapped" ELSE "exited"
            /\ last' = [op |-> "map_window", ok |-> ok]
    /\ UNCHANGED <<screen, children, window, st, i, pending, waiting, since>>

\* MyWindow { .. } and State::new(&window); let mut i = 1
\* The u32 subtractions underflow only where the u16 ones of CreateOverlay
\* did, and main got here only if those wrapped.
NewState ==
    /\ pc = "mapped"
    /\ \E gpu \in BOOLEAN :
        LET win == [window |-> window.window,
                    visual_id |-> screen.root_visual,
                    width |-> WrappingSubU32(AsU32(screen.width_in_pixels), Margin),
                    height |-> WrappingSubU32(AsU32(screen.height_in_pixels), Margin)]
        IN  /\ window' = win
            /\ IF gpu
               THEN /\ st' = StateNew(win)
                    /\ pc' = "render"
               ELSE /\ st' = st                  \* request_adapter / request_device unwrap
                    /\ pc' = "panicked"
            /\ last' = [op |-> "State::new", ok |-> gpu]
    /\ i' = 1
    /\ UNCHANGED <<screen, xlog, server, children, pending, waiting, since>>

\* match state.render() { .. }
RenderStep ==
    /\ pc = "render"
    /\ \E acq \in AcquireOutcomes, draw \in DrawOutcomes :
        LET r == Render(st, acq, draw)
            m == MatchRender(r.st, r.ret)
        IN  IF r.ret = "panic"
            THEN /\ pc' = "panicked"
                 /\ st' = r.st
                 /\ last' = [op |-> "render", acq |-> acq, arm |-> "panic",
                             acquired |-> r.acquired, presented |-> r.presented,
                             dropped |-> r.dropped, before |-> st]
            ELSE /\ pc' = IF m.brk THEN "done" ELSE "poll"
                 /\ st' = m.st
                 /\ last' = [op |-> "render", acq |-> acq, arm |-> m.arm,
                             acquired |-> r.acquired, presented |-> r.presented,
                             dropped |-> r.dropped, before |-> st]
    /\ UNCHANGED <<screen, xlog, server, children, window, i, pending, waiting, since>>

\* conn.poll_for_event().unwrap(), the restack check, the counter, the sleep
PollStep ==
    /\ pc = "poll"
    /\ \E pollOk \in BOOLEAN, queryOk \in BOOLEAN, sendOk \in BOOLEAN :
        LET polled == PollForEvent(pending)
            event == polled.event
            check == ShouldCheck(event, i)
            reply == [ok |-> queryOk, children |-> children]
            r == RaiseIfNotTop(reply, window.window, sendOk)
            order == IF check /\ r.status = "ok" /\ r.reqs # <<>>
                     THEN Restack(children, window.window) ELSE children
        IN  IF ~pollOk
            THEN /\ pc' = "panicked"
                 /\ last' = [op |-> "poll", status |-> "panic", event |-> FALSE,
                             check |-> FALSE]
                 /\ UNCHANGED <<children, i, pending, waiting, since>>
            ELSE IF check /\ r.status = "err"
            THEN /\ pc' = "exited"
                 /\ last' = [op |-> "poll", status |-> "err", event |-> FALSE,
                             check |-> TRUE, counter |-> i, gap |-> since,
                             tree |-> reply, reqs |-> r.reqs, before |-> children,
                             after |-> children]
                 /\ UNCHANGED <<children, i, pending, waiting, since>>
            ELSE /\ pc' = "render"
                 /\ pending' = polled.left
                 /\ children' = order
                 /\ i' = NextCounter(i)
                 /\ waiting' = IF check \/ ~Buried(order) THEN 0
                               ELSE IF waiting < Cap THEN waiting + 1 ELSE waiting
                 /\ since' = IF check THEN 0
                             ELSE IF since < STACK_CHECK_DELAY THEN since + 1 ELSE since
                 /\ last' = IF check
                            THEN [op |-> "poll", status |-> "ok", event |-> event,
                                  check |-> TRUE, counter |-> i, gap |-> since,
                                  tree |-> reply, reqs |-> r.reqs,
                                  before |-> children, after |-> order]
                            ELSE [op |-> "poll", status |-> "ok", event |-> event,
                                  check |-> FALSE, counter |-> i]
    /\ UNCHANGED <<screen, xlog, server, window, st>>

Running == pc \in {"start", "connected", "created", "mapped", "render", "poll"}

\* the server queues an event for the overlay's connection
EventArrives ==
    /\ Running
    /\ pending < MaxPending
    /\ pending' = pending + 1
    /\ UNCHANGED <<pc, screen, xlog, server, children, window, st, i, last, waiting, since>>

\* the window manager or another client changes the stacking order
WMRestack ==
    /\ Running
    /\ \E o \in StackingOrders(server) :
        /\ o # children
        /\ children' = o
        /\ waiting' = IF Buried(o) THEN waiting ELSE 0
    /\ UNCHANGED <<pc, screen, xlog, server, window, st, i, pending, last, since>>

Next ==
    \/ Connect
    \/ CreateOverlay
    \/ MapWindow
    \/ NewState
    \/ RenderStep
    \/ PollStep
    \/ EventArrives
    \/ WMRestack

Spec == Init /\ [][Next]_vars

----------------------------------------------------------------------------
(* A State object on its own: State::new on a window of any size, then     *)
(* resize called with any sizes.                                           *)

\* u32 values on both sides of 0 and of 2^16
Dims == {<<hi, lo>> : hi \in 0..1, lo \in 0..MaxDim}

InitState ==
    /\ pc = "state"
    /\ screen \in {s \in Screens : Depth32(s) # <<>>}
    /\ xlog = <<>>
    /\ server = [win |-> NoWindow, regions |-> {}]
    /\ children = <<>>
    /\ window = [window |-> OverlayId, visual_id |-> screen.root_visual,
                 width |-> WrappingSubU32(AsU32(screen.width_in_pixels), Margin),
                 height |-> WrappingSubU32(AsU32(screen.height_in_pixels), Margin)]
    /\ st = StateNew(window)
    /\ i = 1
    /\ pending = 0
    /\ last = [op |-> "State::new"]
    /\ waiting = 0
    /\ since = 0

ResizeCall ==
    /\ pc = "state"
    /\ \E w \in Dims, h \in Dims :
        /\ Len(Resize(st, <<w, h>>).calls) <= MaxCalls + 1
        /\ st' = Resize(st, <<w, h>>)
        /\ last' = [op |-> "resize", new_size |-> <<w, h>>, before |-> st]
    /\ UNCHANGED <<pc, screen, xlog, server, children, window, i, pending, waiting, since>>

NextState == ResizeCall

SpecState == InitState /\ [][NextState]_vars

----------------------------------------------------------------------------
(* Properties *)

Dim(v) == [width |-> v[1], height |-> v[2]]

\* the restack check ran in the last completed step and got the tree
Checked == last.op = "poll" /\ last.check /\ last.tree.ok

TreeEndsWithOverlay(t) == Len(t) > 0 /\ t[Len(t)] = window.window

\* input_passthrough returned Ok: always_on_top has begun
PassthroughReturnedOk == \E k \in DOMAIN xlog : xlog[k].op = "InternAtom"

\* C1: a Lost or Outdated frame acquisition is followed by one surface
\* reconfiguration with the size stored before the failure, and the loop goes
\* on to the poll and the next iteration.
C1_RecoversFromSurfaceLoss ==
    (last.op = "render" /\ last.acq \in {"Lost", "Outdated"})
        => /\ pc = "poll"
           /\ st.size = last.before.size
           /\ st.calls = Append(last.before.calls, Dim(last.before.size))

\* C2: after resize((w, h)) with w > 0 and h > 0 the stored size and the
\* configuration's width and height are (w, h), and exactly one configure call
\* was made, with those dimensions.
C2_ResizeNonZero ==
    (last.op = "resize" /\ ~IsZeroU32(last.new_size[1]) /\ ~IsZeroU32(last.new_size[2]))
        => /\ st.size = last.new_size
           /\ st.config.width = last.new_size[1]
           /\ st.config.height = last.new_size[2]
           /\ st.calls = Append(last.before.calls, Dim(last.new_size))

C2_Witness ==
    /\ last.op = "resize"
    /\ last.new_size = <<<<0, 1>>, <<1, 0>>>>
    /\ last.new_size # last.before.size
    /\ Len(st.calls) = 2

\* C3: resize((w, h)) with w = 0 or h = 0 leaves the stored size and the
\* configuration unchanged and makes no configure call.
C3_ResizeZero ==
    (last.op = "resize" /\ (IsZeroU32(last.new_size[1]) \/ IsZeroU32(last.new_size[2])))
        => /\ st.size = last.before.size
           /\ st.config = last.before.config
           /\ st.calls = last.before.calls

C3_Witness ==
    /\ last.op = "resize"
    /\ last.new_size = <<<<0, 0>>, <<0, 1>>>>
    /\ ~IsZeroU32(st.size[1])
    /\ Len(st.calls) = 1

\* C4: whenever the surface has been configured, the configured width and
\* height are both greater than 0, the first configuration included.
C4_ConfiguredNonZero ==
    \A k \in DOMAIN st.calls :
        ~IsZeroU32(st.calls[k].width) /\ ~IsZeroU32(st.calls[k].height)

\* C5: when the root's child list ends with the overlay, raise_if_not_top
\* issues no configure-window request and the stacking order stays as it was;
\* a second call on the result does the same.
C5_NoOpWhenTop ==
    (Checked /\ TreeEndsWithOverlay(last.tree.children))
        => /\ last.reqs = <<>>
           /\ last.after = last.before
           /\ RaiseIfNotTop([ok |-> TRUE, children |-> last.after],
                            window.window, TRUE).reqs = <<>>

C5_Witness ==
    /\ Checked
    /\ TreeEndsWithOverlay(last.tree.children)
    /\ Len(last.tree.children) > 1
    /\ last.status = "ok"

\* C6: when the root's child list does not end with the overlay (empty, or
\* without the overlay, or with it below another window), raise_if_not_top
\* issues exactly one configure-window request, for the overlay, with stack
\* mode ABOVE and nothing else set.
C6_RaisesWhenNotTop ==
    (Checked /\ ~TreeEndsWithOverlay(last.tree.children))
        => /\ Len(last.reqs) = 1
           /\ last.reqs[1].op = "ConfigureWindow"
           /\ last.reqs[1].window = window.window
           /\ DOMAIN last.reqs[1].values = {"stack_mode"}
           /\ last.reqs[1].values.stack_mode = "ABOVE"

C6_Witness ==
    /\ Checked
    /\ last.status = "ok"
    /\ window.window \in Range(last.tree.children)
    /\ ~TreeEndsWithOverlay(last.tree.children)
    /\ TreeEndsWithOverlay(last.after)

\* C7 as stated: an iteration whose poll delivered an event does not advance
\* the counter and does not make a check be skipped.
C7_CountsEventFreeFrames ==
    (last.op = "poll" /\ last.status = "ok" /\ last.event)
        => i = last.counter

\* C7 amended: every completed iteration advances the counter by one modulo
\* 30, event or not, and raise_if_not_top is invoked in exactly the iterations
\* where the counter is 0 and the poll found no event.
C7_CountsEveryFrame ==
    (last.op = "poll" /\ last.status = "ok")
        => /\ i = (last.counter + 1) % STACK_CHECK_DELAY
           /\ last.check <=> (~last.event /\ last.counter = 0)

C7_Witness ==
    /\ last.op = "poll"
    /\ last.status = "ok"
    /\ last.event
    /\ last.counter = 0
    /\ i = 1

\* C8: once the overlay is not the last child of the root, raise_if_not_top is
\* invoked within 30 further loop iterations, however events arrive.
C8_HealsWithinThirtyIterations == waiting <= STACK_CHECK_DELAY

\* C9: once input_passthrough has returned Ok, the window's bounding shape is
\* its full rectangle and its input shape is empty, so the two differ; no
\* request ever applies a region to the bounding shape.
C9_BoundingFullInputEmpty ==
    /\ \A k \in DOMAIN xlog :
          (xlog[k].op = "SetWindowShapeRegion" /\ xlog[k].dest_kind = "BOUNDING")
              => xlog[k].region = RegionNone
    /\ (PassthroughReturnedOk /\ server.win.exists)
          => /\ server.win.bounding = FullRect(server.win.width, server.win.height)
             /\ ~IsEmptyRegion(server.win.bounding)
             /\ IsEmptyRegion(server.win.input)
             /\ ~SameRegion(server.win.bounding, server.win.input)

C9_Witness ==
    /\ PassthroughReturnedOk
    /\ server.win.exists
    /\ pc = "created"
    /\ server.win.width = 1720

\* C10: on a W x H screen the overlay is created at (100, 100) with size
\* (W - 200) x (H - 200), and the surface is first configured with the created
\* window's width and height.
C10_WindowAndSurfaceSize ==
    st.made
        => \E k \in DOMAIN xlog :
              /\ xlog[k].op = "CreateWindow"
              /\ xlog[k].x = WinPos /\ xlog[k].y = WinPos
              /\ xlog[k].width = screen.width_in_pixels - Margin
              /\ xlog[k].height = screen.height_in_pixels - Margin
              /\ st.calls[1] = [width |-> AsU32(xlog[k].width),
                                height |-> AsU32(xlog[k].height)]

\* the startup requests of one kind, by their place in xlog
Issued(op) == {k \in DOMAIN xlog : xlog[k].op = op}

LoopEnded == st.made /\ pc \in {"done", "exited", "panicked"}

\* C11: a Timeout of the frame acquisition changes nothing: no surface
\* reconfiguration, no termination; the loop goes on to the poll of the same
\* iteration with the configuration as it was.
C11_TimeoutIsTransient ==
    (last.op = "render" /\ last.acq = "Timeout")
        => /\ pc = "poll"
           /\ st.calls = last.before.calls
           /\ st.config = last.before.config

\* C12: after an OutOfMemory frame acquisition the loop is over: no further
\* render, poll, restack check or surface reconfiguration takes place.
C12_OutOfMemoryEndsLoop ==
    (last.op = "render" /\ last.acq = "OutOfMemory")
        => /\ pc \in {"done", "panicked"}
           /\ ~last.presented
           /\ st.calls = last.before.calls

C12_Witness ==
    /\ last.op = "render"
    /\ last.acq = "OutOfMemory"
    /\ LoopEnded
    /\ pending > 0

\* C13: a running loop stops only on an OutOfMemory frame acquisition; Lost,
\* Outdated, Timeout, a failing poll and a failing restack check do not end it.
C13_OnlyOutOfMemoryStops ==
    LoopEnded => (last.op = "render" /\ last.acq = "OutOfMemory")

\* C14: the always-on-top client message is sent exactly once in a run, and
\* only after the map request for the overlay has been issued.
C14_AboveRequestAfterMap ==
    /\ Cardinality(Issued("SendEvent")) <= 1
    /\ st.made => Cardinality(Issued("SendEvent")) = 1
    /\ \A k \in Issued("SendEvent") : \E m \in Issued("MapWindow") : m < k

\* C15: on every exit path of input_passthrough the region it created is
\* destroyed exactly once, after the last request that refers to it, and no
\* destroy is issued for a region already destroyed.
C15_RegionDestroyedOnce ==
    /\ Cardinality(Issued("DestroyRegion")) <= 1
    /\ PassthroughReturnedOk => Cardinality(Issued("DestroyRegion")) = 1
    /\ \A d \in Issued("DestroyRegion") :
          \A u \in Issued("SetWindowShapeRegion") :
              xlog[u].region = xlog[d].region => u < d

C17_NoFrameHeld ==
    /\ st.outstanding = 0
    /\ (last.op = "render" /\ last.acquired) => (last.presented \/ last.dropped)

C17_Witness ==
    /\ pc = "render"
    /\ last.op = "poll"
    /\ i = 3
    /\ st.made
    /\ st.outstanding = 0

\* the screen advertises no depth-32 entry, or none with a visual
NoAlphaVisual ==
    \A k \in DOMAIN screen.allowed_depths :
        screen.allowed_depths[k].depth = AlphaDepth
            => screen.allowed_depths[k].visuals = <<>>

\* C18: on a screen without a depth-32 visual create_overlay_window fails
\* before any request is issued, produces no window id, and the loop is never
\* entered.
C18_NoAlphaVisualIsFatal ==
    NoAlphaVisual
        => /\ xlog = <<>>
           /\ ~server.win.exists
           /\ window.window = 0
           /\ ~st.made
           /\ pc \in {"start", "connected", "exited", "panicked"}
           /\ last.op = "create_overlay_window" => pc = "panicked"

C18_Witness ==
    /\ NoAlphaVisual
    /\ Len(screen.allowed_depths) = 2
    /\ last.op = "create_overlay_window"
    /\ last.status = "panic"
    /\ pc = "panicked"

\* C19: when the root visual is not the first depth-32 visual, the visual id
\* in the window handle given to the GPU is still the one the overlay window
\* was created with.
C19_HandleVisualIsWindowVisual ==
    (st.made /\ ~NoAlphaVisual /\ screen.root_visual # Depth32(screen)[1].visuals[1])
        => \A k \in Issued("CreateWindow") :
              RawWindowHandle(window).visual_id = xlog[k].visual

\* C20: the counter stays in 0..29; raise_if_not_top is invoked at most once
\* in an iteration, only when the poll returned no event, not within the first
\* 29 iterations, and never less than 30 iterations after the previous
\* invocation.
C20_ChecksThirtyApart ==
    /\ i \in 0..(STACK_CHECK_DELAY - 1)
    /\ (last.op = "poll" /\ last.check)
          => /\ ~last.event
             /\ last.counter = 0
             /\ Len(last.reqs) <= 1
             /\ last.gap >= STACK_CHECK_DELAY - 1

C20_Witness ==
    /\ last.op = "poll"
    /\ last.check
    /\ last.status = "ok"
    /\ last.gap = STACK_CHECK_DELAY - 1
    /\ since = 0

====
